---- MODULE Spec2Model ----
(***************************************************************************)
(* ETL pipeline of wns-challenge: the canonical-name resolver, the three   *)
(* extractors, the DataPipeline orchestrator with its warehouse file, and  *)
(* the consumer's cost calculation (src/normalize_data.py, src/app.py).    *)
(*                                                                         *)
(* Python str values are TLA+ strings; a character is a string of length   *)
(* one.  A Python float is an exact rational <<numerator, denominator>> in *)
(* lowest terms.  None is the string "None" where a str may stand (no text *)
(* of the model equals it there) and the empty tuple where a float may.    *)
(***************************************************************************)
EXTENDS Integers, Sequences, FiniteSets, TLC

VARIABLES
    fn,          \* pure-function harness: the function under call
    arg,         \* its argument
    ret,         \* its return value, meaningful once phase = "returned"
    phase,       \* "idle" | "called" | "returned"
    inputs,      \* the inputs/ directory as the last run() found it
    obj,         \* the DataPipeline object: prices_data and recipes_data
    fresh,       \* obj is newly constructed: run() was never called on it
    pc,          \* position of the pipeline process inside run()/_save()
    pending,     \* _save(): the parts json.dump has still to write
    disk,        \* data_warehouse.json: whether it exists, the parts written
    log,         \* what the logger recorded during the last run()
    outcome,     \* how the last run() ended: "none" | "returned" | "raised"
    lastRun,     \* what the extractors returned in the last run()
    seen         \* what the consumer's last load_data() observed

vars == <<fn, arg, ret, phase, inputs, obj, fresh, pc, pending, disk, log,
          outcome, lastRun, seen>>

None == "None"
NoFloat == <<>>
ValueError == "ValueError"

(***************************************************************************)
(* Text primitives: str.lower, str.strip, the in operator, str.replace,    *)
(* str.split, str.isdigit, float().                                        *)
(***************************************************************************)
UpperLetters == "ABCDEFGHIJKLMNOPQRSTUVWXYZÁÉÍÓÚÑ"
LowerLetters == "abcdefghijklmnopqrstuvwxyzáéíóúñ"
Digits == "0123456789"

CharAt(s, i) == SubSeq(s, i, i)

RECURSIVE IndexIn(_, _, _)
\* least i >= from with alphabet[i] = c, 0 when there is none
IndexIn(alphabet, c, from) ==
    IF from > Len(alphabet) THEN 0
    ELSE IF CharAt(alphabet, from) = c THEN from
    ELSE IndexIn(alphabet, c, from + 1)

CharSet(alphabet) == {CharAt(alphabet, i) : i \in 1..Len(alphabet)}
UpperSet == CharSet(UpperLetters)
LowerSet == CharSet(LowerLetters)
DigitSet == CharSet(Digits)
ToLower == [c \in UpperSet |-> CharAt(LowerLetters, IndexIn(UpperLetters, c, 1))]
ToUpper == [c \in LowerSet |-> CharAt(UpperLetters, IndexIn(LowerLetters, c, 1))]
DigitVal == [c \in DigitSet |-> IndexIn(Digits, c, 1) - 1]

IsSpace(c) == c \in {" ", "\t", "\n", "\r"}
IsDigit(c) == c \in DigitSet

LowerChar(c) == IF c \in UpperSet THEN ToLower[c] ELSE c
UpperChar(c) == IF c \in LowerSet THEN ToUpper[c] ELSE c

RECURSIVE ConcatRange(_, _, _, _)
\* parts[lo] \o ... \o parts[hi], `empty` for an empty range
ConcatRange(parts, lo, hi, empty) ==
    IF lo > hi THEN empty
    ELSE IF lo = hi THEN parts[lo]
    ELSE LET mid == (lo + hi) \div 2
         IN  ConcatRange(parts, lo, mid, empty) \o ConcatRange(parts, mid + 1, hi, empty)

\* "".join(seq)
join(seq) == ConcatRange(seq, 1, Len(seq), "")

\* the string of F(c) for each character c of s
MapChars(s, F(_)) == join([i \in 1..Len(s) |-> F(CharAt(s, i))])

lower(s) == MapChars(s, LowerChar)
upper(s) == MapChars(s, UpperChar)

\* number of consecutive characters from position i on that satisfy P
RunLen(s, i, P(_)) ==
    LET stops == {j \in i..Len(s) : ~P(CharAt(s, j))}
    IN  IF i > Len(s) THEN 0
        ELSE IF stops = {} THEN Len(s) - i + 1
        ELSE (CHOOSE j \in stops : \A k \in stops : j <= k) - i

\* number of consecutive characters from position i backwards that satisfy P
RunLenBack(s, i, P(_)) ==
    LET stops == {j \in 1..i : ~P(CharAt(s, j))}
    IN  IF i < 1 THEN 0
        ELSE IF stops = {} THEN i
        ELSE i - (CHOOSE j \in stops : \A k \in stops : j >= k)

lstrip(s) == SubSeq(s, 1 + RunLen(s, 1, IsSpace), Len(s))
rstrip(s) == SubSeq(s, 1, Len(s) - RunLenBack(s, Len(s), IsSpace))
strip(s) == rstrip(lstrip(s))

\* Python's `sub in s`
Contains(s, sub) ==
    \E i \in 1..(Len(s) - Len(sub) + 1) : SubSeq(s, i, i + Len(sub) - 1) = sub

\* s.replace(c, by) for a one-character c
replace(s, c, by) == MapChars(s, LAMBDA x : IF x = c THEN by ELSE x)

\* <<a, a+1, ..., b>> and <<b, b-1, ..., a>>
Asc(a, b) == [i \in 1..(IF b >= a THEN b - a + 1 ELSE 0) |-> a + i - 1]
Desc(b, a) == [i \in 1..(IF b >= a THEN b - a + 1 ELSE 0) |-> b - i + 1]

\* the pieces of s outside the separators; separator k covers the positions
\* from[k] .. to[k], and the separators are in increasing order
PiecesBetween(s, from, to) ==
    [k \in 1..(Len(from) + 1) |->
        SubSeq(s, IF k = 1 THEN 1 ELSE to[k - 1] + 1,
                  IF k = Len(from) + 1 THEN Len(s) ELSE from[k] - 1)]

\* s.split(c) for a one-character separator: a sequence of strings
split(s, c) ==
    LET at == SelectSeq(Asc(1, Len(s)), LAMBDA i : CharAt(s, i) = c)
    IN  PiecesBetween(s, at, at)

\* str.isdigit(): non-empty and every character a digit
isdigit(s) == s # "" /\ \A i \in 1..Len(s) : IsDigit(CharAt(s, i))

RECURSIVE GCD(_, _)
GCD(a, b) == IF b = 0 THEN a ELSE GCD(b, a % b)

\* the rational n/d (d > 0, n >= 0) in lowest terms
Rat(n, d) == LET g == GCD(n, d) IN <<n \div g, d \div g>>
RatMul(x, y) == Rat(x[1] * y[1], x[2] * y[2])
RatAdd(x, y) == Rat(x[1] * y[2] + y[1] * x[2], x[2] * y[2])
RatDiv(x, y) == Rat(x[1] * y[2], x[2] * y[1])
RatInt(n) == <<n, 1>>

RECURSIVE DigitsValue(_, _)
DigitsValue(s, acc) ==
    IF s = "" THEN acc
    ELSE DigitsValue(Tail(s), 10 * acc + DigitVal[CharAt(s, 1)])

RECURSIVE Pow10(_)
Pow10(n) == IF n = 0 THEN 1 ELSE 10 * Pow10(n - 1)

(***************************************************************************)
(* float(s) on the strings the extractors hand it: surrounding whitespace  *)
(* is ignored, then digits with at most one "." and at least one digit     *)
(* give the number, and anything else raises ValueError.  (No caller in    *)
(* the model passes a sign, an exponent, an underscore, "inf" or "nan".)   *)
(***************************************************************************)
float(s) ==
    LET t == strip(s)
        parts == split(t, ".")
        whole == parts[1]
        frac == IF Len(parts) = 2 THEN parts[2] ELSE ""
        ok == /\ Len(parts) <= 2
              /\ whole \o frac # ""
              /\ isdigit(whole \o frac)
    IN  IF ok THEN Rat(DigitsValue(whole \o frac, 0), Pow10(Len(frac)))
        ELSE ValueError

(***************************************************************************)
(* NormalizationService                                                    *)
(***************************************************************************)
\* _MASTER_MAP in insertion order (the iteration order of the dict)
_MASTER_MAP == <<
    <<"tomate", "tomate">>, <<"lechuga", "lechuga">>, <<"zanahoria", "zanahoria">>,
    <<"papa", "papa">>, <<"cebolla", "cebolla">>, <<"morron", "morron">>,
    <<"morrón", "morron">>, <<"zapallo", "zapallo">>, <<"acelga", "acelga">>,
    <<"espinaca", "espinaca">>, <<"brócoli", "brocoli">>, <<"brocoli", "brocoli">>,
    <<"coli", "brocoli">>, <<"berenjena", "berenjena">>, <<"calabaza", "calabaza">>,
    <<"pepino", "pepino">>, <<"remolacha", "remolacha">>, <<"batata", "batata">>,
    <<"choclo", "choclo">>, <<"asado de tira", "asado_de_tira">>, <<"asado", "asado_de_tira">>,
    <<"vacio", "vacio">>, <<"vacío", "vacio">>, <<"bife de chorizo", "bife_de_chorizo">>,
    <<"lomo", "lomo">>, <<"cuadril", "cuadril">>, <<"roast beef", "roast_beef">>,
    <<"falda", "falda">>, <<"matambre", "matambre">>, <<"entraña", "entrana">>,
    <<"carne picada", "carne_picada">>, <<"carne picada especial", "carne_picada">>, <<"bondiola", "bondiola">>,
    <<"costillas", "costillas">>, <<"lomo de cerdo", "lomo_cerdo">>, <<"jamón fresco", "jamon">>,
    <<"jamon fresco", "jamon">>, <<"panceta", "panceta">>, <<"pollo entero", "pollo">>,
    <<"pollo", "pollo">>, <<"pechuga", "pechuga">>, <<"muslo", "muslo">>,
    <<"ala", "ala">>, <<"patamuslo", "patamuslo">>, <<"supremas", "supremas">>,
    <<"merluza fresca", "merluza">>, <<"merluza", "merluza">>, <<"salmón rosado", "salmon">>,
    <<"salmon", "salmon">>, <<"corvina", "corvina">>, <<"lenguado", "lenguado">>,
    <<"pejerrey", "pejerrey">>, <<"filet de abadejo", "abadejo">>, <<"abadejo", "abadejo">>,
    <<"calamar limpio", "calamar">>, <<"calamar", "calamar">>, <<"mejillones", "mejillones">>
>>

MapKey(i) == _MASTER_MAP[i][1]
MapVal(i) == _MASTER_MAP[i][2]

\* `clean_text in cls._MASTER_MAP` and `cls._MASTER_MAP[clean_text]`
InMap(t) == \E i \in 1..Len(_MASTER_MAP) : MapKey(i) = t
MapGet(t) == MapVal(CHOOSE i \in 1..Len(_MASTER_MAP) : MapKey(i) = t)

RECURSIVE PartialSearch(_, _)
\* the for loop over _MASTER_MAP.items(), from entry i on
PartialSearch(clean_text, i) ==
    IF i > Len(_MASTER_MAP) THEN None
    ELSE IF Contains(clean_text, MapKey(i)) THEN MapVal(i)
    ELSE PartialSearch(clean_text, i + 1)

\* mutant: the exact lookup is left out, only the substring scan decides
normalize_PartialOnly(text) == PartialSearch(strip(lower(text)), 1)

normalize(text) ==
    LET clean_text == strip(lower(text))
    IN  IF InMap(clean_text) THEN MapGet(clean_text)
        ELSE PartialSearch(clean_text, 1)

(***************************************************************************)
(* Python dicts as functions, lists as sequences                           *)
(***************************************************************************)
EmptyDict == [k \in {} |-> 0]

\* d[k] = v
DictSet(d, k, v) == [x \in DOMAIN d \cup {k} |-> IF x = k THEN v ELSE d[x]]

\* d.update(e)
DictUpdate(d, e) ==
    [x \in DOMAIN d \cup DOMAIN e |-> IF x \in DOMAIN e THEN e[x] ELSE d[x]]

\* the concatenation of F(seq[1]), F(seq[2]), ... (each a sequence)
FlatMap(seq, F(_)) ==
    ConcatRange([i \in 1..Len(seq) |-> F(seq[i])], 1, Len(seq), <<>>)

IsNumChar(c) == IsDigit(c) \/ c = "." \/ c = ","

\* re.search(r'([\d\.,]+)', s).group(1), None without a match
FirstNumToken(s) ==
    LET starts == {i \in 1..Len(s) : IsNumChar(CharAt(s, i))}
    IN  IF starts = {} THEN None
        ELSE LET i == CHOOSE x \in starts : \A y \in starts : x <= y
             IN  SubSeq(s, i, i + RunLen(s, i, IsNumChar) - 1)

(***************************************************************************)
(* PDFPriceExtractor.extract on an opened document.  pages[i] is what      *)
(* page i's extract_text() returns: a text, or None.                       *)
(***************************************************************************)
\* the body of `for line in ...`: the prices dict after this line
PDFLine(prices, line) ==
    IF ~Contains(line, "$") THEN prices
    ELSE LET parts == split(line, "$")
             name_part == strip(parts[1])
             price_str == FirstNumToken(parts[2])
             norm_key == normalize(name_part)
             final_price == float(replace(replace(price_str, ".", ""), ",", "."))
         IN  IF price_str = None THEN prices
             ELSE IF norm_key = None THEN prices
             ELSE IF final_price = ValueError THEN prices
             ELSE DictSet(prices, norm_key, final_price)

\* the prices dict after the lines seq[1..], from the dict `prices`
FoldLines(prices, seq) ==
    LET f[i \in 0..Len(seq)] ==
            IF i = 0 THEN prices ELSE PDFLine(f[i - 1], seq[i])
    IN  f[Len(seq)]

\* full_text = "".join([p.extract_text() or "" for p in pdf.pages])
PDFFullText(pages) ==
    join([i \in 1..Len(pages) |-> IF pages[i] = None THEN "" ELSE pages[i]])

PDFExtractPages(pages) == FoldLines(EmptyDict, split(PDFFullText(pages), "\n"))

(***************************************************************************)
(* ExcelPriceExtractor.extract on a loaded frame.  grid[r][c] is           *)
(* str(df.iat[r, c]); every row has df.shape[1] cells.                     *)
(***************************************************************************)
LooksLikeMoney(val_price) ==
    Contains(val_price, "$") \/ isdigit(replace(val_price, ".", ""))

ExcelCell(prices, val_name, val_price) ==
    LET norm_key == normalize(val_name)
        clean_p == strip(replace(replace(replace(val_price, "$", ""), ".", ""), ",", "."))
    IN  IF norm_key # None /\ LooksLikeMoney(val_price)
        THEN IF float(clean_p) = ValueError THEN prices
             ELSE DictSet(prices, norm_key, float(clean_p))
        ELSE prices

\* the (r, c) pairs in the order of the two nested range() loops
ExcelScanOrder(grid) ==
    FlatMap(Asc(1, Len(grid)),
            LAMBDA r : [c \in 1..(IF Len(grid[r]) > 0 THEN Len(grid[r]) - 1 ELSE 0)
                           |-> <<r, c>>])

ExcelExtractGrid(grid) ==
    LET order == ExcelScanOrder(grid)
        f[i \in 0..Len(order)] ==
            IF i = 0 THEN EmptyDict
            ELSE ExcelCell(f[i - 1], grid[order[i][1]][order[i][2]],
                           grid[order[i][1]][order[i][2] + 1])
    IN  f[Len(order)]

(***************************************************************************)
(* RecipeExtractor.  A regular-expression search is the first match in the *)
(* backtracking order of re: leftmost start, then each greedy quantifier   *)
(* from its longest run down, each alternation from left to right.  The    *)
(* operators below list the matches in that order; the search takes the    *)
(* first.  An Optional value is a sequence of length 0 (None) or 1.        *)
(***************************************************************************)
UnitAlts == <<"kg", "g", "kgs", "grs">>

NotNewline(c) == c # "\n"

\* the literal `lit` (lower case) at position p, letter case ignored
LitAt(line, p, lit) ==
    /\ p >= 1
    /\ p + Len(lit) - 1 <= Len(line)
    /\ lower(SubSeq(line, p, p + Len(lit) - 1)) = lit

\* (.+) at the end of pattern A, from position r
RestA(line, cant, unit, r) ==
    IF RunLen(line, r, NotNewline) >= 1
    THEN <<[cant |-> cant, unit |-> unit,
            prod |-> SubSeq(line, r, r + RunLen(line, r, NotNewline) - 1)]>>
    ELSE <<>>

\* \s*(?:de)?\s*(.+) from position p
TailA(line, cant, unit, p) ==
    FlatMap(Desc(RunLen(line, p, IsSpace), 0), LAMBDA w2 :
        (IF LitAt(line, p + w2, "de")
         THEN FlatMap(Desc(RunLen(line, p + w2 + 2, IsSpace), 0), LAMBDA w3 :
                  RestA(line, cant, unit, p + w2 + 2 + w3))
         ELSE <<>>)
        \o FlatMap(Desc(RunLen(line, p + w2, IsSpace), 0), LAMBDA w3 :
               RestA(line, cant, unit, p + w2 + w3)))

\* r'([\d\.,]+)\s*(kg|g|kgs|grs)\s*(?:de)?\s*(.+)', re.IGNORECASE
MatchesA(line) ==
    FlatMap(Asc(1, Len(line)), LAMBDA s :
        FlatMap(Desc(RunLen(line, s, IsNumChar), 1), LAMBDA n :
            FlatMap(Desc(RunLen(line, s + n, IsSpace), 0), LAMBDA w1 :
                FlatMap(UnitAlts, LAMBDA u :
                    IF LitAt(line, s + n + w1, u)
                    THEN TailA(line, SubSeq(line, s, s + n - 1),
                               SubSeq(line, s + n + w1, s + n + w1 + Len(u) - 1),
                               s + n + w1 + Len(u))
                    ELSE <<>>))))

\* \s*([\d\.,]+)\s*(kg|g|kgs|grs) from position p, after "(.+):"
TailB(line, prod, p) ==
    FlatMap(Desc(RunLen(line, p, IsSpace), 0), LAMBDA w1 :
        FlatMap(Desc(RunLen(line, p + w1, IsNumChar), 1), LAMBDA n :
            FlatMap(Desc(RunLen(line, p + w1 + n, IsSpace), 0), LAMBDA w2 :
                FlatMap(UnitAlts, LAMBDA u :
                    IF LitAt(line, p + w1 + n + w2, u)
                    THEN <<[prod |-> prod,
                            cant |-> SubSeq(line, p + w1, p + w1 + n - 1),
                            unit |-> SubSeq(line, p + w1 + n + w2,
                                            p + w1 + n + w2 + Len(u) - 1)]>>
                    ELSE <<>>))))

\* r'(.+):\s*([\d\.,]+)\s*(kg|g|kgs|grs)', re.IGNORECASE
MatchesB(line) ==
    FlatMap(Asc(1, Len(line)), LAMBDA s :
        FlatMap(Desc(RunLen(line, s, NotNewline), 1), LAMBDA n :
            IF LitAt(line, s + n, ":")
            THEN TailB(line, SubSeq(line, s, s + n - 1), s + n + 1)
            ELSE <<>>))

startswith(s, prefix) ==
    Len(prefix) <= Len(s) /\ SubSeq(s, 1, Len(prefix)) = prefix

\* the IngredientItem of the matched groups, <<>> when the line is dropped
ItemOfGroups(g) ==
    LET norm_key == normalize(g.prod)
        qty == float(replace(g.cant, ",", "."))
    IN  IF norm_key = None THEN <<>>
        ELSE IF qty = ValueError THEN <<>>
        ELSE <<[id |-> norm_key,
                name |-> strip(g.prod),
                qty_g |-> IF startswith(lower(g.unit), "kg")
                          THEN RatMul(qty, RatInt(1000)) ELSE qty]>>

_parse_ingredient_line(line) ==
    LET a == MatchesA(line)
    IN  IF a # <<>> THEN ItemOfGroups(a[1])
        ELSE LET b == MatchesB(line)
             IN  IF b # <<>> THEN ItemOfGroups(b[1]) ELSE <<>>

\* position i starts a line of content (the ^ of re.MULTILINE)
AtLineStart(content, i) == i = 1 \/ CharAt(content, i - 1) = "\n"

\* re.split(r'^#\s+', content, flags=re.MULTILINE): a separator is a "#" at
\* the start of a line together with the run of whitespace after it
SplitH1(content) ==
    LET at == SelectSeq(Asc(1, Len(content)),
                        LAMBDA i : /\ AtLineStart(content, i)
                                   /\ CharAt(content, i) = "#"
                                   /\ RunLen(content, i + 1, IsSpace) >= 1)
    IN  PiecesBetween(content, at,
                      [k \in 1..Len(at) |-> at[k] + RunLen(content, at[k] + 1, IsSpace)])

\* lines = [l.strip() for l in block.split('\n') if l.strip()]
BlockLines(block) ==
    FlatMap(split(block, "\n"),
            LAMBDA l : IF strip(l) # "" THEN <<strip(l)>> ELSE <<>>)

\* the body of `for block in blocks`: the recipes this block adds
RecipesOfBlock(block) ==
    LET lines == BlockLines(block)
        title == lines[1]
        ingredients == FlatMap(Tail(lines), LAMBDA line : _parse_ingredient_line(line))
    IN  IF lines = <<>> THEN <<>>
        ELSE IF Contains(title, "Lista") THEN <<>>
        ELSE IF ingredients # <<>>
             THEN <<[name |-> title, ingredients |-> ingredients]>>
        ELSE <<>>

\* RecipeExtractor.extract on the content read from the file
RecipeExtractContent(content) ==
    FlatMap(SplitH1(content), LAMBDA block : RecipesOfBlock(block))

(***************************************************************************)
(* The consumer (app.py): the loop of calculate() over the recipes of the  *)
(* loaded warehouse, with the rate get_usd_rate returned (None on failure) *)
(***************************************************************************)
\* truth value of an Optional[float]: None and 0 are false
Truthy(x) == x # NoFloat /\ x[1] # 0

\* prices.get(key)
DictGet(d, k) == IF k \in DOMAIN d THEN d[k] ELSE NoFloat

\* one pass of `for ing in r['ingredients']` on the accumulated state
CalcIngredient(acc, prices, ing) ==
    LET price_ars_kg == DictGet(prices, ing.id)
        cost_ars == IF Truthy(price_ars_kg)
                    THEN RatMul(RatDiv(ing.qty_g, RatInt(1000)), price_ars_kg)
                    ELSE RatInt(0)
    IN  [total_ars |-> IF Truthy(price_ars_kg) THEN RatAdd(acc.total_ars, cost_ars)
                       ELSE acc.total_ars,
         missing |-> IF Truthy(price_ars_kg) THEN acc.missing ELSE TRUE,
         details |-> Append(acc.details,
                            [name |-> ing.name, qty_g |-> ing.qty_g,
                             cost_ars |-> cost_ars, found |-> Truthy(price_ars_kg)])]

\* one pass of `for r in recipes`: the entry appended to results
CalcRecipe(prices, usd_rate, r) ==
    LET ings == r.ingredients
        f[i \in 0..Len(ings)] ==
            IF i = 0 THEN [total_ars |-> RatInt(0), missing |-> FALSE, details |-> <<>>]
            ELSE CalcIngredient(f[i - 1], prices, ings[i])
        end == f[Len(ings)]
    IN  [name |-> r.name,
         total_cost_ars |-> end.total_ars,
         total_cost_usd |-> IF Truthy(usd_rate) THEN RatDiv(end.total_ars, usd_rate)
                            ELSE NoFloat,
         has_missing |-> end.missing,
         ingredients |-> end.details]

calculate(data, usd_rate) ==
    [i \in 1..Len(data.recipes) |-> CalcRecipe(data.prices, usd_rate, data.recipes[i])]

(***************************************************************************)
(* The extractors on files.  A file of inputs/ is [status, doc]: status is *)
(* "absent", "unreadable" (opening or decoding it raises) or "ok", and doc *)
(* is what the reader library yields for it.  An extractor's call yields   *)
(* [val, raised, log]: its return value, whether an exception left        *)
(* extract(), and what it logged.                                          *)
(***************************************************************************)
\* PDFPriceExtractor.extract
PDFPriceExtractor_extract(file) ==
    IF file.status = "absent"
    THEN [val |-> EmptyDict, raised |-> FALSE, log |-> {"warning: not found"}]
    ELSE IF file.status = "unreadable"
         THEN [val |-> EmptyDict, raised |-> FALSE, log |-> {"error: pdf"}]
    ELSE [val |-> PDFExtractPages(file.doc), raised |-> FALSE, log |-> {}]

\* ExcelPriceExtractor.extract: the .csv export stands in for a missing .xlsx
ExcelPriceExtractor_extract(xlsx, csv) ==
    LET file == IF xlsx.status = "absent" /\ csv.status # "absent" THEN csv ELSE xlsx
    IN  IF file.status = "absent"
        THEN [val |-> EmptyDict, raised |-> FALSE, log |-> {"warning: not found"}]
        ELSE IF file.status = "unreadable"
             THEN [val |-> EmptyDict, raised |-> FALSE, log |-> {"error: excel"}]
        ELSE [val |-> ExcelExtractGrid(file.doc), raised |-> FALSE, log |-> {}]

\* RecipeExtractor.extract
RecipeExtractor_extract(file) ==
    IF file.status = "absent"
    THEN [val |-> <<>>, raised |-> FALSE, log |-> {"warning: not found"}]
    ELSE IF file.status = "unreadable"
         THEN [val |-> <<>>, raised |-> FALSE, log |-> {"error: md"}]
    ELSE [val |-> RecipeExtractContent(file.doc), raised |-> FALSE, log |-> {}]

(***************************************************************************)
(* DataPipeline                                                            *)
(***************************************************************************)
\* DataPipeline.__init__
NewDataPipeline == [prices_data |-> EmptyDict, recipes_data |-> <<>>]

\* mutant: the tabular prices are merged first, the layout prices overwrite
MergePrices_LayoutLast(prices_data, layout, tabular) ==
    DictUpdate(DictUpdate(prices_data, tabular), layout)

\* self.prices_data.update(pdf_ex.extract()); self.prices_data.update(xls_ex.extract())
MergePrices(prices_data, layout, tabular) ==
    DictUpdate(DictUpdate(prices_data, layout), tabular)

\* Recipe.to_dict
to_dict(r) ==
    [name |-> r.name,
     ingredients |-> [i \in 1..Len(r.ingredients) |->
                         [id |-> r.ingredients[i].id,
                          name |-> r.ingredients[i].name,
                          qty_g |-> r.ingredients[i].qty_g]]]

\* the `output` dict of _save
Warehouse(o) ==
    [metadata |-> [version |-> "2.0", generated_by |-> "Python ETL"],
     prices |-> o.prices_data,
     recipes |-> [i \in 1..Len(o.recipes_data) |-> to_dict(o.recipes_data[i])]]

\* the document json.dump writes, in the order of its parts
DocParts(w) == <<[metadata |-> w.metadata], [prices |-> w.prices], [recipes |-> w.recipes]>>

\* the directories inputs/ a run may find
PdfFiles ==
    {[status |-> "absent", doc |-> <<>>], [status |-> "unreadable", doc |-> <<>>],
     [status |-> "ok",
      doc |-> <<"Lista de precios\nTomate $ 500\nPapa $ 1.234,50", "Lechuga $ 300">>]}

XlsxFiles ==
    {[status |-> "absent", doc |-> <<>>], [status |-> "unreadable", doc |-> <<>>],
     [status |-> "ok", doc |-> <<<<"Tomate", "$ 600">>, <<"Lomo", "$ 9.000">>>>]}

CsvFiles ==
    {[status |-> "absent", doc |-> <<>>],
     [status |-> "ok", doc |-> <<<<"Pollo entero", "2500">>>>]}

MdFiles ==
    {[status |-> "absent", doc |-> ""], [status |-> "unreadable", doc |-> ""],
     [status |-> "ok", doc |-> "# Puchero\n1 kg de Asado\n500 grs de Zapallo"]}

\* the .csv export is looked at only when the .xlsx is missing
InputDirs ==
    {d \in [pdf : PdfFiles, xlsx : XlsxFiles, csv : CsvFiles, md : MdFiles] :
        d.xlsx.status # "absent" => d.csv.status = "absent"}

NoInputs ==
    [pdf |-> [status |-> "absent", doc |-> <<>>],
     xlsx |-> [status |-> "absent", doc |-> <<>>],
     csv |-> [status |-> "absent", doc |-> <<>>],
     md |-> [status |-> "absent", doc |-> ""]]

\* a small choice of directories: nothing, everything, one source each way
FewInputDirs ==
    {d \in InputDirs :
        /\ d.csv.status = "absent"
        /\ d.pdf.status \in {"absent", "ok"} /\ d.xlsx.status \in {"absent", "ok"}
        /\ d.md.status = d.pdf.status}

(***************************************************************************)
(* Idle values: a specification that exercises one part of the program     *)
(* leaves the variables of the other parts at these values.                *)
(***************************************************************************)
HarnessIdle ==
    /\ fn = "none"
    /\ arg = ""
    /\ ret = None
    /\ phase = "idle"

\* the record of a run: whether the object was fresh, and each extractor's call
NoRun ==
    [fresh |-> FALSE,
     pdf |-> [val |-> EmptyDict, raised |-> FALSE, log |-> {}],
     xls |-> [val |-> EmptyDict, raised |-> FALSE, log |-> {}],
     md |-> [val |-> <<>>, raised |-> FALSE, log |-> {}]]

PipelineIdle ==
    /\ inputs = NoInputs
    /\ obj = NewDataPipeline
    /\ fresh = TRUE
    /\ pc = "idle"
    /\ pending = <<>>
    /\ disk = [exists |-> FALSE, parts |-> <<>>]
    /\ log = {}
    /\ outcome = "none"
    /\ lastRun = NoRun
    /\ seen = [kind |-> "none", parts |-> <<>>]

pipelineVars == <<inputs, obj, fresh, pc, pending, disk, log, outcome, lastRun, seen>>
harnessVars == <<fn, arg, ret, phase>>

\* pipeline = DataPipeline(): a new object, on which nothing has run
Construct ==
    /\ pc = "idle"
    /\ ~fresh
    /\ obj' = NewDataPipeline
    /\ fresh' = TRUE
    /\ log' = {}
    /\ outcome' = "none"
    /\ lastRun' = NoRun
    /\ UNCHANGED <<inputs, pc, pending, disk, seen, harnessVars>>

\* between two runs: the documents of inputs/ as the next run will find them
ChangeInputs(dirs) ==
    /\ pc = "idle"
    /\ inputs' \in dirs
    /\ log' = {}
    /\ outcome' = "none"
    /\ lastRun' = NoRun
    /\ UNCHANGED <<obj, fresh, pc, pending, disk, seen, harnessVars>>

\* run() up to the call of _save(): the three extractions and the merge.  An
\* exception that leaves an extractor leaves run() too.
RunIngest ==
    /\ pc = "idle"
    /\ outcome = "none"
    /\ lastRun' = [fresh |-> fresh,
                   pdf |-> PDFPriceExtractor_extract(inputs.pdf),
                   xls |-> ExcelPriceExtractor_extract(inputs.xlsx, inputs.csv),
                   md |-> RecipeExtractor_extract(inputs.md)]
    /\ IF lastRun'.pdf.raised
       THEN /\ obj' = obj
            /\ log' = lastRun'.pdf.log
            /\ outcome' = "raised" /\ pc' = "idle"
       ELSE IF lastRun'.xls.raised
       THEN /\ obj' = [obj EXCEPT !.prices_data = DictUpdate(@, lastRun'.pdf.val)]
            /\ log' = lastRun'.pdf.log \cup lastRun'.xls.log
            /\ outcome' = "raised" /\ pc' = "idle"
       ELSE /\ log' = lastRun'.pdf.log \cup lastRun'.xls.log \cup lastRun'.md.log
            /\ IF lastRun'.md.raised
               THEN /\ obj' = [obj EXCEPT !.prices_data =
                                   MergePrices(@, lastRun'.pdf.val, lastRun'.xls.val)]
                    /\ outcome' = "raised" /\ pc' = "idle"
               ELSE /\ obj' = [prices_data |-> MergePrices(obj.prices_data,
                                                          lastRun'.pdf.val, lastRun'.xls.val),
                               recipes_data |-> lastRun'.md.val]
                    /\ outcome' = "running" /\ pc' = "save_open"
    /\ fresh' = FALSE
    /\ UNCHANGED <<inputs, pending, disk, seen, harnessVars>>

\* _save(): open(OUTPUT_FILE, 'w') creates or truncates the file
SaveOpen ==
    /\ pc = "save_open"
    /\ disk' = [exists |-> TRUE, parts |-> <<>>]
    /\ pending' = DocParts(Warehouse(obj))
    /\ pc' = "save_write"
    /\ UNCHANGED <<inputs, obj, fresh, log, outcome, lastRun, seen, harnessVars>>

\* _save(): open() raises IOError; the except clause logs it
SaveOpenFails ==
    /\ pc = "save_open"
    /\ log' = log \cup {"error: save"}
    /\ pc' = "run_return"
    /\ UNCHANGED <<inputs, obj, fresh, pending, disk, outcome, lastRun, seen, harnessVars>>

\* _save(): json.dump writes the next part of the document
SaveWrite ==
    /\ pc = "save_write"
    /\ pending # <<>>
    /\ disk' = [disk EXCEPT !.parts = Append(@, Head(pending))]
    /\ pending' = Tail(pending)
    /\ UNCHANGED <<inputs, obj, fresh, pc, log, outcome, lastRun, seen, harnessVars>>

\* _save(): a write raises IOError; the except clause logs it
SaveWriteFails ==
    /\ pc = "save_write"
    /\ pending # <<>>
    /\ pending' = <<>>
    /\ log' = log \cup {"error: save"}
    /\ pc' = "run_return"
    /\ UNCHANGED <<inputs, obj, fresh, disk, outcome, lastRun, seen, harnessVars>>

\* _save(): the with block ends, the file is closed, the path is logged
SaveClose ==
    /\ pc = "save_write"
    /\ pending = <<>>
    /\ log' = log \cup {"info: saved"}
    /\ pc' = "run_return"
    /\ UNCHANGED <<inputs, obj, fresh, pending, disk, outcome, lastRun, seen, harnessVars>>

\* run() after _save() returned: the closing log line, then the return
RunReturn ==
    /\ pc = "run_return"
    /\ log' = log \cup {"info: finished ok"}
    /\ outcome' = "returned"
    /\ pc' = "idle"
    /\ UNCHANGED <<inputs, obj, fresh, pending, disk, lastRun, seen, harnessVars>>

\* the consumer's load_data(), at any moment
LoadData ==
    /\ seen' = IF disk.exists THEN [kind |-> "file", parts |-> disk.parts]
               ELSE [kind |-> "default", parts |-> <<>>]
    /\ UNCHANGED <<inputs, obj, fresh, pc, pending, disk, log, outcome, lastRun, harnessVars>>

Init == HarnessIdle /\ PipelineIdle

\* the pipeline over every directory
Next ==
    \/ ChangeInputs(InputDirs)
    \/ Construct
    \/ RunIngest
    \/ SaveOpen
    \/ SaveOpenFails
    \/ SaveWrite
    \/ SaveWriteFails
    \/ SaveClose
    \/ RunReturn

Spec == Init /\ [][Next]_vars

\* the pipeline over a few directories, and the consumer beside it
NextWarehouse ==
    \/ ChangeInputs(FewInputDirs)
    \/ Construct
    \/ RunIngest
    \/ SaveOpen
    \/ SaveOpenFails
    \/ SaveWrite
    \/ SaveWriteFails
    \/ SaveClose
    \/ RunReturn
    \/ LoadData

SpecWarehouse == Init /\ [][NextWarehouse]_vars

\* what the extractors returned in the run on record
LayoutPrices == lastRun.pdf.val
TabularPrices == lastRun.xls.val
RunRecipes == [i \in 1..Len(lastRun.md.val) |-> to_dict(lastRun.md.val[i])]

\* the run on record got past its extractions; it ended; it wrote its document
AfterIngest == outcome \in {"running", "returned"}
RunEnded == pc = "idle" /\ outcome \in {"returned", "raised"}
Persisted == RunEnded /\ "info: saved" \in log

\* the document on disk is whole: metadata, prices and recipes
IsCompleteDoc(parts) == Len(parts) = 3

\* the tabular entries win, the layout entries fill the other keys
TabularOverLayout(prices) ==
    /\ \A k \in DOMAIN TabularPrices : k \in DOMAIN prices /\ prices[k] = TabularPrices[k]
    /\ \A k \in DOMAIN LayoutPrices \ DOMAIN TabularPrices :
           k \in DOMAIN prices /\ prices[k] = LayoutPrices[k]

\* C1: on a fresh pipeline the prices of the Warehouse that run() produces have
\* the key set keys(L) \cup keys(T), every key of T with T's value (also when L
\* has the key) and every key only in L with L's value.
C1_TabularOverLayoutOnFresh ==
    (AfterIngest /\ lastRun.fresh) =>
        /\ DOMAIN Warehouse(obj).prices = DOMAIN LayoutPrices \cup DOMAIN TabularPrices
        /\ TabularOverLayout(Warehouse(obj).prices)
        /\ Persisted => disk.parts[2].prices = Warehouse(obj).prices

\* C1 witness: a fresh pipeline has run and saved; both extractors priced
\* tomate differently and the layout extractor alone priced papa
C1_Witness ==
    /\ Persisted /\ lastRun.fresh
    /\ "tomate" \in DOMAIN LayoutPrices \cap DOMAIN TabularPrices
    /\ LayoutPrices["tomate"] # TabularPrices["tomate"]
    /\ "papa" \in DOMAIN LayoutPrices \ DOMAIN TabularPrices
    /\ disk.parts[2].prices["tomate"] = TabularPrices["tomate"]
    /\ disk.parts[2].prices["papa"] = LayoutPrices["papa"]

Missing(file) == file.status \in {"absent", "unreadable"}

\* C2: whatever sources are present, absent or unreadable, run() does not raise
\* because of an extractor: an absent or unreadable source contributes an empty
\* result, the other extractors are still called and their results are in the
\* Warehouse, and with all three files absent prices and recipes are empty.
C2_SourceFailuresIsolated ==
    RunEnded =>
        /\ outcome # "raised"
        /\ ~lastRun.pdf.raised /\ ~lastRun.xls.raised /\ ~lastRun.md.raised
        /\ Missing(inputs.pdf) => LayoutPrices = EmptyDict
        /\ (Missing(inputs.xlsx) /\ Missing(inputs.csv)) => TabularPrices = EmptyDict
        /\ Missing(inputs.md) => lastRun.md.val = <<>>
        /\ TabularOverLayout(Warehouse(obj).prices)
        /\ Warehouse(obj).recipes = RunRecipes
        /\ (/\ inputs.pdf.status = "absent" /\ inputs.xlsx.status = "absent"
            /\ inputs.csv.status = "absent" /\ inputs.md.status = "absent")
           => /\ Warehouse(obj).prices = EmptyDict
              /\ Warehouse(obj).recipes = <<>>

\* C3: when the warehouse file cannot be opened or written, the failure leaves
\* run() as an error: run() does not return normally and does not log that the
\* pipeline finished.
C3_SaveFailureSurfaces ==
    (RunEnded /\ "error: save" \in log) =>
        /\ outcome = "raised"
        /\ "info: finished ok" \notin log

\* C4: whenever the consumer loads data_warehouse.json, also while _save() is
\* under way or has failed part-way, it reads a whole warehouse document, the
\* previous one or the new one, never an empty or partly written one.
C4_ReaderSeesWholeDocument ==
    seen.kind = "file" => IsCompleteDoc(seen.parts)

\* C5: the Warehouse a run produces and persists is determined by the source
\* documents of that run alone: its prices are the merge of what the two price
\* extractors returned in this run, its recipes this run's recipes, whatever
\* earlier runs on the same or another pipeline object produced.
C5_RunDeterminedByCurrentSources ==
    AfterIngest =>
        /\ Warehouse(obj).prices = DictUpdate(LayoutPrices, TabularPrices)
        /\ Warehouse(obj).recipes = RunRecipes
        /\ Persisted =>
               /\ disk.parts[2].prices = DictUpdate(LayoutPrices, TabularPrices)
               /\ disk.parts[3].recipes = RunRecipes

(***************************************************************************)
(* NormalizationService.normalize on bounded inputs                        *)
(***************************************************************************)
MaxPad == 1

RECURSIVE PadsOfLen(_)
PadsOfLen(n) ==
    IF n = 0 THEN {""}
    ELSE {p \o w : p \in PadsOfLen(n - 1), w \in {" ", "\n"}}

Pads == UNION {PadsOfLen(n) : n \in 0..MaxPad}

capitalize(s) == IF s = "" THEN "" ELSE UpperChar(CharAt(s, 1)) \o Tail(s)

Forms == {"lower", "upper", "capitalize"}

Cased(s, form) ==
    IF form = "upper" THEN upper(s)
    ELSE IF form = "capitalize" THEN capitalize(s)
    ELSE s

KeyIndex == 1..Len(_MASTER_MAP)

\* an argument of normalize, described by its parts: the table key k in a
\* letter case (k = 0: no key), a second key j after " y " (j = 0: none), and
\* the text before and after; from is k when the text is key k with only
\* whitespace around it, and 0 otherwise
TextOf(a) ==
    a.pre
    \o (IF a.k = 0 THEN "" ELSE Cased(MapKey(a.k), a.form))
    \o (IF a.j = 0 THEN "" ELSE " y " \o MapKey(a.j))
    \o a.suf

\* a table key in some letter case, with whitespace around it
KeyVariants ==
    {[from |-> i, k |-> i, j |-> 0, form |-> f, pre |-> pl, suf |-> pr] :
        i \in KeyIndex, f \in Forms, pl \in Pads, pr \in Pads}

\* a table key inside a longer text, two keys in one text, and texts without
\* a key
NoisyTexts ==
    {[from |-> 0, k |-> i, j |-> 0, form |-> f, pre |-> pre, suf |-> suf] :
        i \in KeyIndex, f \in Forms,
        pre \in {"rs de ", "s de ", "x"}, suf \in {" especial", "s", " x kg"}}
    \cup {[from |-> 0, k |-> i, j |-> j, form |-> "lower", pre |-> "", suf |-> ""] :
              i, j \in KeyIndex}
    \cup {[from |-> 0, k |-> 0, j |-> 0, form |-> "lower", pre |-> t, suf |-> ""] :
              t \in {"", " ", "harina", "Sal fina", "nan", "al a"}}

NormInputs == KeyVariants \cup NoisyTexts

InitNorm ==
    /\ fn = "normalize"
    /\ arg \in NormInputs
    /\ ret = None
    /\ phase = "called"
    /\ PipelineIdle

CallNormalize ==
    /\ fn = "normalize"
    /\ phase = "called"
    /\ ret' = normalize(TextOf(arg))
    /\ phase' = "returned"
    /\ UNCHANGED <<fn, arg, pipelineVars>>

NextNorm == CallNormalize

SpecNorm == InitNorm /\ [][NextNorm]_vars

\* the two-phase reference resolver, stated on the lowercased, trimmed text
RefResolve(text) ==
    LET t == strip(lower(text))
        exact == {i \in KeyIndex : MapKey(i) = t}
        partial == {i \in KeyIndex : Contains(t, MapKey(i))}
    IN  IF exact # {} THEN MapVal(CHOOSE i \in exact : TRUE)
        ELSE IF partial # {}
             THEN MapVal(CHOOSE i \in partial : \A j \in partial : i <= j)
        ELSE None

\* C6: normalize(text) is the two-phase reference resolver: an exact match of
\* the lowercased, trimmed text wins over any substring match ('lomo de cerdo'
\* gives lomo_cerdo, not lomo), otherwise the first table entry in table order
\* whose key is a substring; every table key, in any letter case and with
\* whitespace around it, resolves to its own canonical value.
C6_NormalizeTwoPhase ==
    (fn = "normalize" /\ phase = "returned") =>
        /\ ret = RefResolve(TextOf(arg))
        /\ arg.from # 0 => ret = MapVal(arg.from)
        /\ TextOf(arg) = "lomo de cerdo" => ret = "lomo_cerdo"

\* C6 witness: a key that contains an earlier key, upper-cased and padded, has
\* been resolved by the exact phase
C6_Witness ==
    /\ fn = "normalize" /\ phase = "returned"
    /\ arg.from # 0 /\ MapKey(arg.from) = "lomo de cerdo"
    /\ arg.form = "upper" /\ arg.pre = " " /\ arg.suf = "\n"
    /\ TextOf(arg) = " LOMO DE CERDO\n"
    /\ ret = "lomo_cerdo"

(***************************************************************************)
(* PDFPriceExtractor.extract on bounded documents                          *)
(***************************************************************************)
MaxPages == 2
MaxLines == 2

\* text lines of a price list, as a page's extract_text() yields them
PdfLines ==
    {"Tomate $ 500", "Lechuga  $300,50 x kg", "Papa $ 1.234,50",
     "Harina $ 100", "Tomate $ s/d", "Zapallo $ 1,2,3", "Ofertas"}

RECURSIVE TextsOfLines(_, _)
\* the texts of exactly n lines of `lines`, joined by line breaks
TextsOfLines(lines, n) ==
    IF n = 1 THEN lines
    ELSE {t \o "\n" \o l : t \in TextsOfLines(lines, n - 1), l \in lines}

PdfPages == {None} \cup UNION {TextsOfLines(PdfLines, n) : n \in 1..MaxLines}

RECURSIVE SeqsUpTo(_, _)
\* the sequences over S of length 1..n
SeqsUpTo(S, n) ==
    IF n = 0 THEN {}
    ELSE {<<x>> : x \in S}
         \cup {Append(q, x) : q \in SeqsUpTo(S, n - 1), x \in S}

PdfDocs == SeqsUpTo(PdfPages, MaxPages)

InitPDF ==
    /\ fn = "pdf_extract"
    /\ arg \in PdfDocs
    /\ ret = None
    /\ phase = "called"
    /\ PipelineIdle

CallPDFExtract ==
    /\ fn = "pdf_extract"
    /\ phase = "called"
    /\ ret' = PDFExtractPages(arg)
    /\ phase' = "returned"
    /\ UNCHANGED <<fn, arg, pipelineVars>>

NextPDF == CallPDFExtract

SpecPDF == InitPDF /\ [][NextPDF]_vars

\* every text line of every page, page by page
LinesOfPages(pages) ==
    FlatMap(pages, LAMBDA p : IF p = None THEN <<>> ELSE split(p, "\n"))

\* C10: extract handles each text line of each page as a line of its own (the
\* last line of a page and the first line of the next page included): the
\* result is the mapping built line by line, the last line for a key winning,
\* and a line whose name or price does not resolve is skipped.
C10_EachPageLineOnItsOwn ==
    (fn = "pdf_extract" /\ phase = "returned") =>
        ret = FoldLines(EmptyDict, LinesOfPages(arg))

(***************************************************************************)
(* ExcelPriceExtractor.extract on bounded grids                            *)
(***************************************************************************)
MaxRows == 2
MaxCols == 3

CellTexts == {"tomate", "Lomo de cerdo", "$ 1.234,50", "950,5", "1.500", "s/d $", "nan"}

\* the grids of r rows and c columns
Grids(r, c) == [1..r -> [1..c -> CellTexts]]

ExcelGrids == UNION {Grids(r, c) : r \in 1..MaxRows, c \in 1..MaxCols} \ Grids(MaxRows, MaxCols)

InitExcel ==
    /\ fn = "excel_extract"
    /\ arg \in ExcelGrids
    /\ ret = None
    /\ phase = "called"
    /\ PipelineIdle

CallExcelExtract ==
    /\ fn = "excel_extract"
    /\ phase = "called"
    /\ ret' = ExcelExtractGrid(arg)
    /\ phase' = "returned"
    /\ UNCHANGED <<fn, arg, pipelineVars>>

NextExcel == CallExcelExtract

SpecExcel == InitExcel /\ [][NextExcel]_vars

\* a price candidate as the specification words it: the currency marker, or
\* digits only once the separators "." and "," are removed
RefPriceCandidate(text) ==
    Contains(text, "$") \/ isdigit(replace(replace(text, ".", ""), ",", ""))

\* "." is the thousands separator, "," the decimal separator
RefParsePrice(text) ==
    float(strip(replace(replace(replace(text, "$", ""), ".", ""), ",", ".")))

RefExcel(grid) ==
    LET order == ExcelScanOrder(grid)
        f[i \in 0..Len(order)] ==
            IF i = 0 THEN EmptyDict
            ELSE LET name == grid[order[i][1]][order[i][2]]
                     price == grid[order[i][1]][order[i][2] + 1]
                 IN  IF /\ normalize(name) # None
                        /\ RefPriceCandidate(price)
                        /\ RefParsePrice(price) # ValueError
                     THEN DictSet(f[i - 1], normalize(name), RefParsePrice(price))
                     ELSE f[i - 1]
    IN  f[Len(order)]

\* C9: extract returns the mapping of the row-major scan: a cell that resolves
\* to k, followed by a price candidate (the currency marker, or digits only
\* once "." and "," are removed), maps k to the parsed neighbour; later pairs
\* overwrite earlier ones and an unparsable neighbour is skipped.
C9_RowMajorPairs ==
    (fn = "excel_extract" /\ phase = "returned") => ret = RefExcel(arg)

(***************************************************************************)
(* RecipeExtractor._parse_ingredient_line on bounded ingredient lines      *)
(***************************************************************************)
UnitTokens == {Cased(UnitAlts[i], f) : i \in 1..Len(UnitAlts), f \in Forms}
Quantities == {"500", "1,5", "0.25"}

\* the name of an ingredient line: table key k as written or capitalised
NameOf(a) == Cased(MapKey(a.k), a.form)

\* the text of an ingredient line, from the parts it is written from
LineOf(a) ==
    IF a.grammar = "A"
    THEN a.qty \o a.sp \o a.unit \o a.de \o NameOf(a)
    ELSE NameOf(a) \o ": " \o a.qty \o a.sp \o a.unit

\* the lines of the two grammars, each described by its parts
GrammarALines ==
    {[grammar |-> "A", qty |-> q, sp |-> sp, unit |-> u, de |-> de, k |-> i, form |-> f] :
        q \in Quantities, sp \in {"", " "}, u \in UnitTokens,
        de \in {" de ", " "}, i \in KeyIndex, f \in {"lower", "capitalize"}}

GrammarBLines ==
    {[grammar |-> "B", qty |-> q, sp |-> sp, unit |-> u, de |-> "", k |-> i, form |-> f] :
        q \in Quantities, sp \in {"", " "}, u \in UnitTokens,
        i \in KeyIndex, f \in {"lower", "capitalize"}}

InitLine ==
    /\ fn = "_parse_ingredient_line"
    /\ arg \in GrammarALines \cup GrammarBLines
    /\ ret = None
    /\ phase = "called"
    /\ PipelineIdle

CallParseIngredientLine ==
    /\ fn = "_parse_ingredient_line"
    /\ phase = "called"
    /\ ret' = _parse_ingredient_line(LineOf(arg))
    /\ phase' = "returned"
    /\ UNCHANGED <<fn, arg, pipelineVars>>

NextLine == CallParseIngredientLine

SpecLine == InitLine /\ [][NextLine]_vars

\* the quantity as written, comma or period as the decimal separator
WrittenQty(a) == float(replace(a.qty, ",", "."))

\* C7: for every accepted line of Grammar A or B with a resolvable name and
\* one of the unit tokens kg, kgs, g, grs in any letter case, qty_g is 1000
\* times the written quantity for kg and kgs and the written quantity for g
\* and grs, and id is the canonical key of the written name.
C7_UnitsAndIds ==
    (fn = "_parse_ingredient_line" /\ phase = "returned" /\ ret # <<>>) =>
        /\ ret[1].qty_g = IF lower(arg.unit) \in {"kg", "kgs"}
                          THEN RatMul(WrittenQty(arg), RatInt(1000))
                          ELSE WrittenQty(arg)
        /\ ret[1].id = normalize(NameOf(arg))

(***************************************************************************)
(* calculate() on bounded warehouses                                       *)
(***************************************************************************)
MaxRecipes == 1
MaxIngredients == 2

CalcIds == {"tomate", "papa"}
CalcPrices == {RatInt(0), RatInt(500), Rat(12345, 10)}
CalcItems ==
    {[id |-> "tomate", name |-> "Tomate", qty_g |-> RatInt(500)],
     [id |-> "papa", name |-> "papa", qty_g |-> RatInt(1000)],
     [id |-> "lomo", name |-> "Lomo", qty_g |-> Rat(5, 2)]}

\* the price mappings over some of the ids
CalcPriceMaps == UNION {[ids -> CalcPrices] : ids \in SUBSET CalcIds}

CalcRecipes == {[name |-> "Puchero", ingredients |-> ings] :
                   ings \in SeqsUpTo(CalcItems, MaxIngredients)}

\* the rate the lookup yields: None when it failed, else ARS per USD
UsdRates == {NoFloat, Rat(9505, 10), RatInt(1000)}

CalcInputs ==
    {[data |-> [prices |-> pr, recipes |-> rs], usd_rate |-> rate] :
        pr \in CalcPriceMaps, rs \in SeqsUpTo(CalcRecipes, MaxRecipes), rate \in UsdRates}

InitCalc ==
    /\ fn = "calculate"
    /\ arg \in CalcInputs
    /\ ret = None
    /\ phase = "called"
    /\ PipelineIdle

CallCalculate ==
    /\ fn = "calculate"
    /\ phase = "called"
    /\ ret' = calculate(arg.data, arg.usd_rate)
    /\ phase' = "returned"
    /\ UNCHANGED <<fn, arg, pipelineVars>>

NextCalc == CallCalculate

SpecCalc == InitCalc /\ [][NextCalc]_vars

\* the sum of (qty_g / 1000) * price over the ingredients priced in `prices`
RefTotal(prices, ings) ==
    LET f[i \in 0..Len(ings)] ==
            IF i = 0 THEN RatInt(0)
            ELSE IF ings[i].id \in DOMAIN prices
                 THEN RatAdd(f[i - 1], RatMul(RatDiv(ings[i].qty_g, RatInt(1000)),
                                              prices[ings[i].id]))
                 ELSE f[i - 1]
    IN  f[Len(ings)]

\* C8: for every recipe, total_cost_ars is the sum of (qty_g / 1000) * price
\* over exactly the ingredients whose id is a key of prices, has_missing is
\* true iff some ingredient's id is absent from prices, and total_cost_usd is
\* the total divided by the rate when the lookup succeeded, absent otherwise.
C8_CostPerRecipe ==
    (fn = "calculate" /\ phase = "returned") =>
        \A i \in 1..Len(arg.data.recipes) :
            LET ings == arg.data.recipes[i].ingredients
                prices == arg.data.prices
            IN  /\ ret[i].total_cost_ars = RefTotal(prices, ings)
                /\ ret[i].has_missing =
                       (\E j \in 1..Len(ings) : ings[j].id \notin DOMAIN prices)
                /\ ret[i].total_cost_usd =
                       IF arg.usd_rate # NoFloat
                       THEN RatDiv(RefTotal(prices, ings), arg.usd_rate)
                       ELSE NoFloat

====
